---- MODULE Spec2Model ----
(***************************************************************************)
(* Exam-question ingestion and analysis pipeline of Study-AI-Agent:        *)
(*   core/exam_analysis.py  QuestionPaperAnalyzer (segmenter, two-tier     *)
(*                          extraction, module mapper)                     *)
(*   core/ingest.py         KnowledgeBase question bank (save / load)      *)
(*   streamlit/viz_utils.py recurrence clustering and the high-yield view  *)
(* Texts are sequences of one-character strings; years, labels and names   *)
(* are strings; Python's None is the value None below.                     *)
(***************************************************************************)
EXTENDS Integers, Sequences, FiniteSets, TLC

VARIABLES
    text,           \* the document text handed to the analyzer
    default_year,   \* the caller's year hint (parameter `year`)
    paper_name,     \* the caller's paper name
    pc,             \* position of the running operation
    sections,       \* result of _extract_year_sections
    seg_calls,      \* number of segmenter invocations
    sec_idx,        \* index of the next section of the fallback loop
    calls,          \* the service calls made so far, with their outcomes
    all_questions,  \* the fallback tier's accumulator
    result,         \* the value returned by the operation
    pattern,        \* ExamPattern.module_mapping, in iteration order
    questions,      \* the question list handed to the module mapper
    file,           \* the subject's question_bank.json
    file0,          \* the file before the first save
    saved,          \* the lists passed to save so far
    loaded,         \* the value the last load returned
    twin,           \* the same bank kept in the other file form (legacy
                    \* array / wrapped object), given the same saves
    cpc,            \* position of each concurrent save
    cbank,          \* current_bank of each concurrent save
    cnew,           \* the questions argument of each concurrent save
    order,          \* the file operations of the concurrent saves, in the
                    \* order they happened
    qlist,          \* the question list handed to the clustering
    qlist0,         \* that list before the first call
    runs,           \* the values cluster_similar_questions returned so far
    repeats         \* the clusters the high-yield view shows

vars == <<text, default_year, paper_name, pc, sections, seg_calls, sec_idx,
          calls, all_questions, result, pattern, questions, file, file0,
          saved, loaded, twin, cpc, cbank, cnew, order, qlist, qlist0, runs,
          repeats>>

parseVars == <<text, default_year, paper_name, sections, seg_calls, sec_idx,
               calls, all_questions, result>>
mapVars == <<pattern, questions>>
storeVars == <<file, file0, saved, loaded, twin>>
concVars == <<cpc, cbank, cnew, order>>
clusterVars == <<qlist, qlist0, runs, repeats>>

\* Python's None
None == "<None>"

Min(a, b) == IF a < b THEN a ELSE b

-----------------------------------------------------------------------------
(* Characters and the regular expression r'\b(19|20)\d{2}\b'               *)

Digit == {"0", "1", "2", "3", "4", "5", "6", "7", "8", "9"}

Letter ==
    {"a", "b", "c", "d", "e", "f", "g", "h", "i", "j", "k", "l", "m", "n",
     "o", "p", "q", "r", "s", "t", "u", "v", "w", "x", "y", "z",
     "A", "B", "C", "D", "E", "F", "G", "H", "I", "J", "K", "L", "M", "N",
     "O", "P", "Q", "R", "S", "T", "U", "V", "W", "X", "Y", "Z"}

\* \w
WordChar == Digit \cup Letter \cup {"_"}

\* what str.strip() removes
Whitespace == {" ", "\t", "\n", "\r"}

\* \b between s[g] and s[g+1] (g = 0: start of the string, g = Len(s): end)
WordBoundary(s, g) ==
    LET before == g >= 1 /\ s[g] \in WordChar
        after == g + 1 <= Len(s) /\ s[g + 1] \in WordChar
    IN  before # after

\* the pattern matches s[p .. p+3]
YearMatchAt(s, p) ==
    /\ p >= 1
    /\ p + 3 <= Len(s)
    /\ WordBoundary(s, p - 1)
    /\ <<s[p], s[p + 1]>> \in {<<"1", "9">>, <<"2", "0">>}
    /\ s[p + 2] \in Digit
    /\ s[p + 3] \in Digit
    /\ WordBoundary(s, p + 3)

\* re.search from position `from`: the leftmost match start, 0 when none
RECURSIVE SearchFrom(_, _)
SearchFrom(s, from) ==
    IF from + 3 > Len(s) THEN 0
    ELSE IF YearMatchAt(s, from) THEN from
    ELSE SearchFrom(s, from + 1)

\* [m.start() for m in re.finditer(...)]: leftmost, non-overlapping
RECURSIVE FindIter(_, _)
FindIter(s, from) ==
    LET p == SearchFrom(s, from)
    IN  IF p = 0 THEN <<>> ELSE <<p>> \o FindIter(s, p + 4)

RECURSIVE ToStr(_)
ToStr(s) == IF s = <<>> THEN "" ELSE s[1] \o ToStr(Tail(s))

RECURSIVE LStrip(_)
LStrip(s) ==
    IF s # <<>> /\ s[1] \in Whitespace THEN LStrip(Tail(s)) ELSE s

RECURSIVE RStrip(_)
RStrip(s) ==
    IF s # <<>> /\ s[Len(s)] \in Whitespace
    THEN RStrip(SubSeq(s, 1, Len(s) - 1))
    ELSE s

\* str.strip()
Strip(s) == RStrip(LStrip(s))

-----------------------------------------------------------------------------
(* QuestionPaperAnalyzer._extract_year_sections                            *)

\* section_text[:500]
HeaderWindow == 500

\* year_match.group(1): the text of the pattern's first group, (19|20)
Group1(s, p) == ToStr(SubSeq(s, p, p + 1))

\* the year label of one section
InferYear(section_text, dflt) ==
    LET window == SubSeq(section_text, 1, Min(HeaderWindow, Len(section_text)))
        m == SearchFrom(window, 1)
    IN  IF m = 0 THEN dflt ELSE Group1(window, m)

\* the loop  for i in range(len(positions) + 1)  from iteration i on;
\* positions are 1-based here, text[start:end] is SubSeq(t, start, end - 1)
RECURSIVE SectionLoop(_, _, _, _)
SectionLoop(t, positions, i, dflt) ==
    IF i > Len(positions) THEN <<>>
    ELSE
        LET start == IF i > 0 THEN positions[i] ELSE 1
            end == IF i < Len(positions) THEN positions[i + 1] ELSE Len(t) + 1
            section_text == Strip(SubSeq(t, start, end - 1))
            rest == SectionLoop(t, positions, i + 1, dflt)
        IN  IF section_text = <<>> THEN rest
            ELSE << <<InferYear(section_text, dflt), section_text>> >> \o rest

\* mutant: no early return for a text without a match
ExtractYearSectionsNoEarlyReturn(t, dflt) ==
    SectionLoop(t, FindIter(t, 1), 0, dflt)

\* mutant: the loop starts at the first match, the text before it is dropped
ExtractYearSectionsNoPreamble(t, dflt) ==
    LET positions == FindIter(t, 1)
    IN  IF positions = <<>> THEN << <<dflt, t>> >>
        ELSE SectionLoop(t, positions, 1, dflt)

ExtractYearSections(t, dflt) ==
    LET positions == FindIter(t, 1)
    IN  IF positions = <<>> THEN << <<dflt, t>> >>
        ELSE SectionLoop(t, positions, 0, dflt)

-----------------------------------------------------------------------------
(* Bounded inputs                                                          *)

\* number of vocabulary words a segmenter input is made of
MaxWords == 4

SegVocabulary ==
    { <<"2", "0", "1", "9">>, <<"1", "9", "9", "8">>, <<"Q">>, <<" ">>,
      <<"7">>, <<".">> }

\* all concatenations of at most n words of vocab
RECURSIVE Concats(_, _)
Concats(vocab, n) ==
    IF n = 0 THEN { <<>> }
    ELSE LET shorter == Concats(vocab, n - 1)
         IN  shorter \cup { w \o t : w \in vocab, t \in shorter }

SegTexts == Concats(SegVocabulary, MaxWords)

DefaultYears == {"Unknown", "2018", ""}

-----------------------------------------------------------------------------
(* Idle values of the variables a specification does not use               *)

ParseIdle ==
    /\ text = <<>>
    /\ default_year = "Unknown"
    /\ paper_name = None
    /\ sections = <<>>
    /\ seg_calls = 0
    /\ sec_idx = 0
    /\ calls = <<>>
    /\ all_questions = <<>>
    /\ result = <<>>

MapIdle ==
    /\ pattern = <<>>
    /\ questions = <<>>

StoreIdle ==
    /\ file = [exists |-> FALSE]
    /\ file0 = [exists |-> FALSE]
    /\ saved = <<>>
    /\ loaded = [kind |-> "unset"]
    /\ twin = [exists |-> FALSE]

\* the two concurrent saves
Procs == {1, 2}

ConcIdle ==
    /\ cpc = [p \in Procs |-> "idle"]
    /\ cbank = [p \in Procs |-> <<>>]
    /\ cnew = [p \in Procs |-> <<>>]
    /\ order = <<>>

ClusterIdle ==
    /\ qlist = <<>>
    /\ qlist0 = <<>>
    /\ runs = <<>>
    /\ repeats = [shown |-> FALSE, clusters |-> <<>>, view |-> <<>>]

-----------------------------------------------------------------------------
(* Specification of the text segmenter alone                               *)

InitSegment ==
    /\ text \in SegTexts
    /\ default_year \in DefaultYears
    /\ pc = "segment"
    /\ paper_name = None
    /\ sections = <<>>
    /\ seg_calls = 0
    /\ sec_idx = 0
    /\ calls = <<>>
    /\ all_questions = <<>>
    /\ result = <<>>
    /\ MapIdle
    /\ StoreIdle
    /\ ConcIdle
    /\ ClusterIdle

SegmentText ==
    /\ pc = "segment"
    /\ sections' = ExtractYearSections(text, default_year)
    /\ seg_calls' = seg_calls + 1
    /\ pc' = "segmented"
    /\ UNCHANGED <<text, default_year, paper_name, sec_idx, calls,
                   all_questions, result>>
    /\ UNCHANGED mapVars
    /\ UNCHANGED storeVars
    /\ UNCHANGED concVars
    /\ UNCHANGED clusterVars

NextSegment == SegmentText

SpecSegment == InitSegment /\ [][NextSegment]_vars

-----------------------------------------------------------------------------
(* QuestionPaperAnalyzer.parse_questions_from_text                         *)

\* an AnalyzedQuestion (core/models.py)
Question(id, number, txt, marks, year, pname) ==
    [id |-> id, number |-> number, part |-> None, text |-> txt,
     marks |-> marks, module |-> None, topic |-> None, year |-> year,
     paper_name |-> pname]

\* questions the extraction service may put in a QuestionBank it returns
SvcQuestions ==
    { Question("s1", 1, <<"a">>, 5, None, None),
      Question("s2", 2, <<"b">>, 0, "", ""),
      Question("s3", 3, <<"c">>, 10, "Unknown", "llm.pdf"),
      Question("s4", 1, <<"d">>, 2, "2021", None),
      Question("s5", 4, <<"e">>, 3, "21", None) }

\* number of questions in one QuestionBank returned by the service
MaxSvcQuestions == 1

RECURSIVE SeqsUpTo(_, _)
SeqsUpTo(S, n) ==
    IF n = 0 THEN { <<>> }
    ELSE LET shorter == SeqsUpTo(S, n - 1)
         IN  shorter \cup { <<x>> \o t : x \in S, t \in shorter }

\* what structured_llm.invoke can do: raise, return an object without
\* .questions (None), or return a QuestionBank
ServiceOutcomes ==
    { [outcome |-> "raise", returned |-> <<>>],
      [outcome |-> "malformed", returned |-> <<>>] }
    \cup { [outcome |-> "ok", returned |-> qs] :
             qs \in SeqsUpTo(SvcQuestions, MaxSvcQuestions) }

\* mutant: the paper name is not stamped
StampBulkNoPaper(q, year, pname) ==
    [q EXCEPT !.year = IF q.year \in {None, ""} \/ q.year = "Unknown"
                       THEN year ELSE q.year]

\* mutant: only an empty year is replaced, "Unknown" is kept
StampBulkKeepUnknown(q, year, pname) ==
    [q EXCEPT !.year = IF q.year \in {None, ""} THEN year ELSE q.year,
              !.paper_name = pname]

\* lines 101-104: the bulk tier's post-processing of one question
StampBulk(q, year, pname) ==
    [q EXCEPT !.year = IF q.year \in {None, ""} \/ q.year = "Unknown"
                       THEN year ELSE q.year,
              !.paper_name = pname]

\* lines 141-143: the fallback tier's post-processing of one question
StampSection(q, sec_year, pname) ==
    [q EXCEPT !.year = sec_year, !.paper_name = pname]

\* mutant: an empty bulk result is treated as a failure
AfterBulkEmptyFallsBack(out) ==
    IF out.outcome = "ok" /\ out.returned # <<>> THEN "done" ELSE "fallback"

\* lines 94-108: where control goes after the bulk attempt
AfterBulk(out) == IF out.outcome = "ok" THEN "done" ELSE "fallback"

\* mutant: the section's exception is not caught
SectionExceptReraise(idx) == [pc |-> "raised", sec_idx |-> idx]

\* mutant: a failed section ends the loop
SectionExceptBreak(idx) == [pc |-> "fallback", sec_idx |-> Len(sections) + 1]

\* lines 147-149: the handler of a failed section (log, continue)
SectionExcept(idx) == [pc |-> "fallback", sec_idx |-> idx + 1]

\* line 144: all_questions.append(q) for each question of a section
Accumulate(acc, qs) == acc \o qs

BulkCall ==
    /\ pc = "bulk"
    /\ \E out \in ServiceOutcomes :
        /\ calls' = Append(calls, [tier |-> "bulk", year |-> None,
                                   text |-> text, outcome |-> out.outcome,
                                   returned |-> out.returned])
        /\ pc' = AfterBulk(out)
        /\ IF AfterBulk(out) = "done"
           THEN /\ result' = [i \in 1..Len(out.returned) |->
                                StampBulk(out.returned[i], default_year,
                                          paper_name)]
                /\ UNCHANGED <<sections, seg_calls, sec_idx, all_questions>>
           ELSE /\ sections' = ExtractYearSections(text, default_year)
                /\ seg_calls' = seg_calls + 1
                /\ sec_idx' = 1
                /\ all_questions' = <<>>
                /\ UNCHANGED result
    /\ UNCHANGED <<text, default_year, paper_name>>
    /\ UNCHANGED mapVars
    /\ UNCHANGED storeVars
    /\ UNCHANGED concVars
    /\ UNCHANGED clusterVars

\* lines 133-134: a section that is blank is not submitted
SectionSkip ==
    /\ pc = "fallback"
    /\ sec_idx <= Len(sections)
    /\ Strip(sections[sec_idx][2]) = <<>>
    /\ sec_idx' = sec_idx + 1
    /\ UNCHANGED <<text, default_year, paper_name, pc, sections, seg_calls,
                   calls, all_questions, result>>
    /\ UNCHANGED mapVars
    /\ UNCHANGED storeVars
    /\ UNCHANGED concVars
    /\ UNCHANGED clusterVars

\* lines 135-149: one section is submitted
SectionCall ==
    /\ pc = "fallback"
    /\ sec_idx <= Len(sections)
    /\ Strip(sections[sec_idx][2]) # <<>>
    /\ \E out \in ServiceOutcomes :
        LET sec_year == sections[sec_idx][1]
            sec_text == sections[sec_idx][2]
        IN  /\ calls' = Append(calls, [tier |-> "section", year |-> sec_year,
                                       text |-> sec_text,
                                       outcome |-> out.outcome,
                                       returned |-> out.returned])
            /\ IF out.outcome = "ok"
               THEN /\ all_questions' =
                          Accumulate(all_questions,
                              [i \in 1..Len(out.returned) |->
                                  StampSection(out.returned[i], sec_year,
                                               paper_name)])
                    /\ sec_idx' = sec_idx + 1
                    /\ pc' = pc
               ELSE /\ all_questions' = all_questions
                    /\ sec_idx' = SectionExcept(sec_idx).sec_idx
                    /\ pc' = SectionExcept(sec_idx).pc
    /\ UNCHANGED <<text, default_year, paper_name, sections, seg_calls,
                   result>>
    /\ UNCHANGED mapVars
    /\ UNCHANGED storeVars
    /\ UNCHANGED concVars
    /\ UNCHANGED clusterVars

\* lines 151-152
FallbackReturn ==
    /\ pc = "fallback"
    /\ sec_idx > Len(sections)
    /\ result' = all_questions
    /\ pc' = "done"
    /\ UNCHANGED <<text, default_year, paper_name, sections, seg_calls,
                   sec_idx, calls, all_questions>>
    /\ UNCHANGED mapVars
    /\ UNCHANGED storeVars
    /\ UNCHANGED concVars
    /\ UNCHANGED clusterVars

\* number of vocabulary words a document given to the orchestrator is made of
ParseMaxWords == 3

ParseVocabulary ==
    { <<"2", "0", "1", "9">>, <<"1", "9", "9", "8">>, <<"Q">>, <<" ">> }

ParseTexts == Concats(ParseVocabulary, ParseMaxWords)

PaperNames == {"cn_2022.pdf", "os.pdf"}

InitParse ==
    /\ text \in ParseTexts
    /\ default_year \in DefaultYears
    /\ paper_name \in PaperNames
    /\ pc = "bulk"
    /\ sections = <<>>
    /\ seg_calls = 0
    /\ sec_idx = 0
    /\ calls = <<>>
    /\ all_questions = <<>>
    /\ result = <<>>
    /\ MapIdle
    /\ StoreIdle
    /\ ConcIdle
    /\ ClusterIdle

NextParse ==
    \/ BulkCall
    \/ SectionSkip
    \/ SectionCall
    \/ FallbackReturn

SpecParse == InitParse /\ [][NextParse]_vars

-----------------------------------------------------------------------------
(* QuestionPaperAnalyzer.map_questions_to_modules                          *)

\* a Python dict as a function; {} is the function with the empty domain
EmptyDict == [k \in {} |-> None]

\* mutant: d.setdefault(k, v), an existing entry is kept
DictSetDefault(d, k, v) ==
    [x \in DOMAIN d \cup {k} |-> IF x \in DOMAIN d THEN d[x] ELSE v]

\* d[k] = v
DictSet(d, k, v) ==
    [x \in DOMAIN d \cup {k} |-> IF x = k THEN v ELSE d[x]]

\* lines 165-166: for q_num in q_nums: q_to_mod[q_num] = mod_name
RECURSIVE AddNumbers(_, _, _)
AddNumbers(d, mod_name, q_nums) ==
    IF q_nums = <<>> THEN d
    ELSE AddNumbers(DictSet(d, q_nums[1], mod_name), mod_name, Tail(q_nums))

\* lines 162-166: the reverse lookup, built in the mapping's iteration order
RECURSIVE BuildLookup(_, _)
BuildLookup(d, mapping) ==
    IF mapping = <<>> THEN d
    ELSE BuildLookup(AddNumbers(d, mapping[1][1], mapping[1][2]),
                     Tail(mapping))

\* mutant: a question whose number is not mapped is left as it was
MapQuestionsNoFallback(qs, mapping) ==
    LET q_to_mod == BuildLookup(EmptyDict, mapping)
    IN  [i \in 1..Len(qs) |->
            IF qs[i].number \in DOMAIN q_to_mod
            THEN [qs[i] EXCEPT !.module = q_to_mod[qs[i].number]]
            ELSE qs[i]]

\* lines 162-176
MapQuestionsToModules(qs, mapping) ==
    LET q_to_mod == BuildLookup(EmptyDict, mapping)
    IN  [i \in 1..Len(qs) |->
            [qs[i] EXCEPT !.module =
                IF qs[i].number \in DOMAIN q_to_mod
                THEN q_to_mod[qs[i].number]
                ELSE "Unknown"]]

\* the questions are updated in place and the same list is returned
MapCall ==
    /\ pc = "map"
    /\ questions' = MapQuestionsToModules(questions, pattern)
    /\ result' = questions'
    /\ pc' = "mapped"
    /\ UNCHANGED <<text, default_year, paper_name, sections, seg_calls,
                   sec_idx, calls, all_questions, pattern>>
    /\ UNCHANGED storeVars
    /\ UNCHANGED concVars
    /\ UNCHANGED clusterVars

ModuleNames == {"Module 1", "Module 2", "Module 3"}

\* question-number lists of a module (ExamPattern.module_mapping values)
NumberLists == { <<>>, <<1>>, <<3>>, <<1, 2>>, <<2, 3>>, <<2, 1, 1>> }

\* number of modules of a pattern
MaxModules == 2

\* number of questions handed to the mapper
MaxMapQuestions == 2

\* module_mapping: a dict, so its keys are distinct; in insertion order
RECURSIVE Mappings(_)
Mappings(n) ==
    IF n = 0 THEN { <<>> }
    ELSE LET shorter == Mappings(n - 1)
         IN  shorter \cup
             { Append(m, <<name, nums>>) :
                 m \in { x \in shorter : Len(x) = n - 1 },
                 name \in ModuleNames, nums \in NumberLists }

DistinctLabels(m) ==
    \A i, j \in 1..Len(m) : m[i][1] = m[j][1] => i = j

Patterns == { m \in Mappings(MaxModules) : DistinctLabels(m) }

\* questions as they leave parse_questions_from_text, and one that already
\* carries a module from an earlier mapping
MapQuestions ==
    { Question("m1", 1, <<"a">>, 5, "2021", "os.pdf"),
      Question("m2", 2, <<"b">>, 5, "2021", "os.pdf"),
      [Question("m3", 3, <<"c">>, 2, "2022", "os.pdf")
          EXCEPT !.module = "Module 9"],
      Question("m4", 4, <<"d">>, 2, "Unknown", "os.pdf") }

InitMap ==
    /\ pattern \in Patterns
    /\ questions \in SeqsUpTo(MapQuestions, MaxMapQuestions)
    /\ pc = "map"
    /\ ParseIdle
    /\ StoreIdle
    /\ ConcIdle
    /\ ClusterIdle

NextMap == MapCall

SpecMap == InitMap /\ [][NextMap]_vars

-----------------------------------------------------------------------------
(* KnowledgeBase.save_analyzed_questions / get_analyzed_questions          *)
(* A file is [exists |-> FALSE] or [exists |-> TRUE, content |-> c], with  *)
(* c the JSON value its text parses to, or Unparseable.                    *)

JNull == [t |-> "null"]
JNum(n) == [t |-> "number", n |-> n]
JStr(str) == [t |-> "string", s |-> str]
JArr(elems) == [t |-> "array", a |-> elems]
JObj(fields) == [t |-> "object", o |-> fields]

\* a file text on which json.load raises
Unparseable == [t |-> "unparseable"]

\* json.dump of an Optional[str] field
EncodeOpt(v) == IF v = None THEN JNull ELSE JStr(v)

\* json.dump(model_dump()) of one AnalyzedQuestion
EncodeQuestion(q) ==
    JObj([id |-> JStr(q.id),
          number |-> JNum(q.number),
          part |-> EncodeOpt(q.part),
          text |-> JStr(q.text),
          marks |-> JNum(q.marks),
          module |-> EncodeOpt(q.module),
          topic |-> EncodeOpt(q.topic),
          year |-> EncodeOpt(q.year),
          paper_name |-> EncodeOpt(q.paper_name)])

\* mutant: the bank is written as a bare array
EncodeBankBare(bank) ==
    JArr([i \in 1..Len(bank) |-> EncodeQuestion(bank[i])])

\* json.dump(current_bank.model_dump(), ...)
EncodeBank(bank) ==
    JObj([questions |-> JArr([i \in 1..Len(bank) |-> EncodeQuestion(bank[i])])])

\* json.load: the Python value of a JSON value
RECURSIVE Decode(_)
Decode(j) ==
    CASE j.t = "null" -> None
      [] j.t = "number" -> j.n
      [] j.t = "string" -> j.s
      [] j.t = "array" -> [i \in 1..Len(j.a) |-> Decode(j.a[i])]
      [] j.t = "object" -> [k \in DOMAIN j.o |-> Decode(j.o[k])]

\* int(s) of the numeric strings pydantic's lax mode accepts for an int field
DigitValue ==
    [d \in Digit |->
        CASE d = "0" -> 0 [] d = "1" -> 1 [] d = "2" -> 2 [] d = "3" -> 3
          [] d = "4" -> 4 [] d = "5" -> 5 [] d = "6" -> 6 [] d = "7" -> 7
          [] d = "8" -> 8 [] d = "9" -> 9]

\* a required int field: present, a number or a numeric string
IntFieldOk(o, k) ==
    /\ k \in DOMAIN o
    /\ \/ o[k].t = "number"
       \/ o[k].t = "string" /\ o[k].s \in Digit

IntField(o, k) == IF o[k].t = "number" THEN o[k].n ELSE DigitValue[o[k].s]

\* an Optional[str] field: absent, null or a string
OptFieldOk(o, k) == k \in DOMAIN o => o[k].t \in {"null", "string"}

OptField(o, k) ==
    IF k \notin DOMAIN o \/ o[k].t = "null" THEN None ELSE o[k].s

\* AnalyzedQuestion(**q) succeeds on the element j
ValidQuestion(j) ==
    /\ j.t = "object"
    /\ "id" \in DOMAIN j.o => j.o["id"].t = "string"
    /\ IntFieldOk(j.o, "number")
    /\ IntFieldOk(j.o, "marks")
    /\ "text" \in DOMAIN j.o
    /\ j.o["text"].t = "string"
    /\ OptFieldOk(j.o, "part")
    /\ OptFieldOk(j.o, "module")
    /\ OptFieldOk(j.o, "topic")
    /\ OptFieldOk(j.o, "year")
    /\ OptFieldOk(j.o, "paper_name")

\* AnalyzedQuestion(**q): uuid is the value of str(uuid.uuid4()), used when
\* the element has no id; keys that are not fields are ignored
ValidateQuestion(j, uuid) ==
    [id |-> IF "id" \in DOMAIN j.o THEN j.o["id"].s ELSE uuid,
     number |-> IntField(j.o, "number"),
     part |-> OptField(j.o, "part"),
     text |-> j.o["text"].s,
     marks |-> IntField(j.o, "marks"),
     module |-> OptField(j.o, "module"),
     topic |-> OptField(j.o, "topic"),
     year |-> OptField(j.o, "year"),
     paper_name |-> OptField(j.o, "paper_name")]

\* [AnalyzedQuestion(**q) for q in elems], each generated id taken from the
\* sequence uuids in turn
RECURSIVE ValidateAll(_, _)
ValidateAll(elems, uuids) ==
    IF elems = <<>> THEN <<>>
    ELSE <<ValidateQuestion(elems[1], Head(uuids))>>
         \o ValidateAll(Tail(elems),
                        IF "id" \in DOMAIN elems[1].o THEN uuids
                        ELSE Tail(uuids))

AllValid(elems) == \A i \in 1..Len(elems) : ValidQuestion(elems[i])

\* mutant: a legacy array is not migrated
CurrentBankNoMigration(f, uuids) ==
    IF ~f.exists THEN <<>>
    ELSE LET data == f.content
         IN  CASE data.t = "object" ->
                    IF "questions" \notin DOMAIN data.o THEN <<>>
                    ELSE IF /\ data.o["questions"].t = "array"
                            /\ AllValid(data.o["questions"].a)
                         THEN ValidateAll(data.o["questions"].a, uuids)
                         ELSE <<>>
               [] OTHER -> <<>>

\* mutant: the valid elements of a list with an invalid element are kept
CurrentBankKeepValid(f, uuids) ==
    IF ~f.exists THEN <<>>
    ELSE LET data == f.content
         IN  CASE data.t = "array" ->
                    ValidateAll(SelectSeq(data.a, ValidQuestion), uuids)
               [] data.t = "object" ->
                    IF "questions" \notin DOMAIN data.o THEN <<>>
                    ELSE IF data.o["questions"].t = "array"
                         THEN ValidateAll(SelectSeq(data.o["questions"].a,
                                                    ValidQuestion), uuids)
                         ELSE <<>>
               [] OTHER -> <<>>

\* lines 131-145: the bank save starts from; any exception leaves it empty
CurrentBank(f, uuids) ==
    IF ~f.exists THEN <<>>
    ELSE LET data == f.content
         IN  CASE data.t = "array" ->
                    IF AllValid(data.a) THEN ValidateAll(data.a, uuids)
                    ELSE <<>>
               [] data.t = "object" ->
                    IF "questions" \notin DOMAIN data.o THEN <<>>
                    ELSE IF /\ data.o["questions"].t = "array"
                            /\ AllValid(data.o["questions"].a)
                         THEN ValidateAll(data.o["questions"].a, uuids)
                         ELSE <<>>
               [] OTHER -> <<>>

\* mutant: the file is overwritten with the new questions only
ExtendReplace(bank, new_questions) == new_questions

\* mutant: a question whose id is already in the bank is not added
ExtendDedup(bank, new_questions) ==
    LET Fresh(q) == \A i \in 1..Len(bank) : bank[i].id # q.id
    IN  bank \o SelectSeq(new_questions, Fresh)

\* line 149: current_bank.questions.extend(questions)
Extend(bank, new_questions) == bank \o new_questions

\* lines 124-152: the file save leaves
SaveResult(f, new_questions, uuids) ==
    [exists |-> TRUE,
     content |-> EncodeBank(Extend(CurrentBank(f, uuids), new_questions))]

\* lines 154-169: what get_analyzed_questions returns; kind tells a list
\* from None and from any other value
Returned(v, j) ==
    [kind |-> CASE j.t = "array" -> "list"
                [] j.t = "null" -> "None"
                [] OTHER -> "other",
     v |-> v]

GetAnalyzedQuestions(f) ==
    IF ~f.exists THEN [kind |-> "list", v |-> <<>>]
    ELSE LET data == f.content
         IN  CASE data.t = "unparseable" -> [kind |-> "list", v |-> <<>>]
               [] data.t = "array" -> [kind |-> "list", v |-> Decode(data)]
               [] data.t = "object" ->
                    IF "questions" \in DOMAIN data.o
                    THEN Returned(Decode(data.o["questions"]),
                                  data.o["questions"])
                    ELSE [kind |-> "list", v |-> <<>>]
               [] OTHER -> [kind |-> "None", v |-> <<>>]

\* the ids uuid4 may generate, in the order they are drawn
UuidSupplies == { <<"u1", "u2">>, <<"u2", "u1">> }

\* questions as ingest_paper passes them to save
NewQuestions ==
    { [Question("n1", 1, <<"a">>, 5, "2021", "os.pdf")
          EXCEPT !.module = "Module 1"],
      [Question("n2", 3, <<"b">>, 0, "Unknown", "os.pdf")
          EXCEPT !.module = "Unknown", !.part = "a"] }

\* number of questions of one save
MaxNew == 2

\* number of saves of one behaviour
MaxSaves == 2

NewLists == SeqsUpTo(NewQuestions, MaxNew)

\* questions stored by earlier ingestions
Old1 ==
    [Question("o1", 2, <<"c">>, 10, "2020", "old.pdf")
        EXCEPT !.module = "Module 2"]
Old2 == Question("o2", 7, <<"d">>, 2, "2019", None)

\* the same element without its id
WithoutId(j) == JObj([k \in DOMAIN j.o \ {"id"} |-> j.o[k]])

\* the contents the subject's file may have before a save
InitialFiles ==
    { [exists |-> FALSE] }
    \cup
    { [exists |-> TRUE, content |-> c] :
        c \in { Unparseable,
                JNum(7),
                JArr(<<EncodeQuestion(Old1), EncodeQuestion(Old2)>>),
                JArr(<<WithoutId(EncodeQuestion(Old1))>>),
                JArr(<<EncodeQuestion(Old1), JNum(3)>>),
                EncodeBank(<<Old1>>),
                EncodeBank(<<Old1, Old2>>),
                JObj([version |-> JNum(1)]),
                JObj([questions |-> JNull]) } }

\* the same bank in the other form: a legacy array as a wrapped object, a
\* wrapped object as the bare array of its questions; any other file as is
OtherForm(f) ==
    IF ~f.exists THEN f
    ELSE LET data == f.content
         IN  CASE data.t = "array" ->
                    [exists |-> TRUE, content |-> JObj([questions |-> data])]
               [] data.t = "object" ->
                    IF /\ DOMAIN data.o = {"questions"}
                       /\ data.o["questions"].t = "array"
                    THEN [exists |-> TRUE, content |-> data.o["questions"]]
                    ELSE f
               [] OTHER -> f

Save ==
    /\ pc = "store"
    /\ Len(saved) < MaxSaves
    /\ \E new_questions \in NewLists, uuids \in UuidSupplies :
        /\ file' = SaveResult(file, new_questions, uuids)
        \* the same save on the twin; equal files give equal results
        /\ twin' = IF twin = file THEN file'
                   ELSE SaveResult(twin, new_questions, uuids)
        /\ saved' = Append(saved, new_questions)
    /\ UNCHANGED <<pc, file0, loaded>>
    /\ UNCHANGED parseVars
    /\ UNCHANGED mapVars
    /\ UNCHANGED concVars
    /\ UNCHANGED clusterVars

Load ==
    /\ pc = "store"
    /\ LET got == GetAnalyzedQuestions(file)
       IN  loaded' = [kind |-> got.kind,
                      v |-> got.v,
                      after |-> Len(saved),
                      twin |-> IF twin = file THEN got
                               ELSE GetAnalyzedQuestions(twin)]
    /\ UNCHANGED <<pc, file, file0, saved, twin>>
    /\ UNCHANGED parseVars
    /\ UNCHANGED mapVars
    /\ UNCHANGED concVars
    /\ UNCHANGED clusterVars

InitStore ==
    /\ file \in InitialFiles
    /\ file0 = file
    /\ twin = OtherForm(file)
    /\ saved = <<>>
    /\ loaded = [kind |-> "unset"]
    /\ pc = "store"
    /\ ParseIdle
    /\ MapIdle
    /\ ConcIdle
    /\ ClusterIdle

NextStore ==
    \/ Save
    \/ Load

SpecStore == InitStore /\ [][NextStore]_vars

-----------------------------------------------------------------------------
(* Two save_analyzed_questions calls on one subject, running concurrently. *)
(* The function takes no lock; its file operations are the read of lines   *)
(* 133-145, the open(path, "w") of line 151, which truncates the file, and *)
(* the json.dump of line 152.                                              *)

\* the file between open(path, "w") and the end of json.dump: empty or a
\* proper prefix of a JSON document, which json.load rejects
Truncated == [exists |-> TRUE, content |-> Unparseable]

\* mutant: the write goes to a temporary file, the bank file is untouched
OpenForWriteTemp(f) == f

\* line 151: open(path, "w") truncates whatever the file held
OpenForWrite(f) == Truncated

\* mutant: the bank is read again from the file when it is merged
MergeReread(f, bank, new_questions, uuids) ==
    Extend(CurrentBank(f, uuids), new_questions)

\* line 149: the new questions are appended to the bank read at lines
\* 133-145; the file is not consulted again
Merge(f, bank, new_questions, uuids) == Extend(bank, new_questions)

Event(p, op) == [p |-> p, op |-> op]

\* lines 133-145
ConcRead(p) ==
    /\ pc = "concurrent"
    /\ cpc[p] = "read"
    /\ \E uuids \in UuidSupplies :
          cbank' = [cbank EXCEPT ![p] = CurrentBank(file, uuids)]
    /\ cpc' = [cpc EXCEPT ![p] = "open"]
    /\ order' = Append(order, Event(p, "read"))
    /\ UNCHANGED <<pc, cnew>>
    /\ UNCHANGED parseVars
    /\ UNCHANGED mapVars
    /\ UNCHANGED storeVars
    /\ UNCHANGED clusterVars

\* lines 149-151
ConcOpen(p) ==
    /\ pc = "concurrent"
    /\ cpc[p] = "open"
    /\ \E uuids \in UuidSupplies :
          cbank' = [cbank EXCEPT ![p] = Merge(file, cbank[p], cnew[p], uuids)]
    /\ file' = OpenForWrite(file)
    /\ cpc' = [cpc EXCEPT ![p] = "dump"]
    /\ order' = Append(order, Event(p, "open"))
    /\ UNCHANGED <<pc, cnew, file0, saved, loaded, twin>>
    /\ UNCHANGED parseVars
    /\ UNCHANGED mapVars
    /\ UNCHANGED clusterVars

\* line 152
ConcDump(p) ==
    /\ pc = "concurrent"
    /\ cpc[p] = "dump"
    /\ file' = [exists |-> TRUE, content |-> EncodeBank(cbank[p])]
    /\ cpc' = [cpc EXCEPT ![p] = "done"]
    /\ order' = Append(order, Event(p, "dump"))
    /\ UNCHANGED <<pc, cbank, cnew, file0, saved, loaded, twin>>
    /\ UNCHANGED parseVars
    /\ UNCHANGED mapVars
    /\ UNCHANGED clusterVars

\* the non-empty lists the two callers save
ConcLists == NewLists \ {<<>>}

InitConcurrent ==
    /\ file \in InitialFiles
    /\ file0 = file
    /\ twin = [exists |-> FALSE]
    /\ saved = <<>>
    /\ loaded = [kind |-> "unset"]
    /\ cpc = [p \in Procs |-> "read"]
    /\ cbank = [p \in Procs |-> <<>>]
    /\ cnew \in [Procs -> ConcLists]
    /\ order = <<>>
    /\ pc = "concurrent"
    /\ ParseIdle
    /\ MapIdle
    /\ ClusterIdle

NextConcurrent ==
    \/ \E p \in Procs : ConcRead(p)
    \/ \E p \in Procs : ConcOpen(p)
    \/ \E p \in Procs : ConcDump(p)

SpecConcurrent == InitConcurrent /\ [][NextConcurrent]_vars

-----------------------------------------------------------------------------
(* A save that stops between open(path, "w") and the end of json.dump,     *)
(* followed by the next save on the same subject.                          *)

\* the process stops while the file is open for writing; what json.dump had
\* written so far is at most a proper prefix of the document
Crash(p) ==
    /\ pc = "concurrent"
    /\ cpc[p] = "dump"
    /\ cpc' = [cpc EXCEPT ![p] = "crashed"]
    /\ order' = Append(order, Event(p, "crash"))
    /\ UNCHANGED <<pc, cbank, cnew>>
    /\ UNCHANGED parseVars
    /\ UNCHANGED mapVars
    /\ UNCHANGED storeVars
    /\ UNCHANGED clusterVars

\* the first save has returned or stopped
FirstEnded == cpc[1] \in {"done", "crashed"}

NextCrash ==
    \/ ConcRead(1)
    \/ ConcOpen(1)
    \/ ConcDump(1)
    \/ \E p \in Procs : Crash(p)
    \/ FirstEnded /\ ConcRead(2)
    \/ FirstEnded /\ ConcOpen(2)
    \/ FirstEnded /\ ConcDump(2)

SpecCrash == InitConcurrent /\ [][NextCrash]_vars

-----------------------------------------------------------------------------
(* streamlit/viz_utils.py: clean_text, get_similarity                      *)

Uppers ==
    <<"A", "B", "C", "D", "E", "F", "G", "H", "I", "J", "K", "L", "M", "N",
      "O", "P", "Q", "R", "S", "T", "U", "V", "W", "X", "Y", "Z">>

Lowers ==
    <<"a", "b", "c", "d", "e", "f", "g", "h", "i", "j", "k", "l", "m", "n",
      "o", "p", "q", "r", "s", "t", "u", "v", "w", "x", "y", "z">>

\* str.lower() on one character
LowerChar(c) ==
    IF \E i \in 1..Len(Uppers) : Uppers[i] = c
    THEN Lowers[CHOOSE i \in 1..Len(Uppers) : Uppers[i] = c]
    ELSE c

\* the characters re.sub(r'[^a-z0-9\s]', '', text) keeps
Kept(c) ==
    \/ \E i \in 1..Len(Lowers) : Lowers[i] = c
    \/ c \in Digit
    \/ c \in Whitespace

CleanText(t) ==
    Strip(SelectSeq([i \in 1..Len(t) |-> LowerChar(t[i])], Kept))

\* length of the common run of a and b that starts at a[i], b[j] and stays
\* within a[..ahi], b[..bhi]
RECURSIVE RunLength(_, _, _, _, _, _)
RunLength(a, b, i, j, ahi, bhi) ==
    IF i <= ahi /\ j <= bhi /\ a[i] = b[j]
    THEN 1 + RunLength(a, b, i + 1, j + 1, ahi, bhi)
    ELSE 0

\* SequenceMatcher.find_longest_match without junk: the longest block of
\* a[alo..ahi] and b[blo..bhi]; of the longest, the one earliest in a; of
\* those, the one earliest in b
FindLongestMatch(a, b, alo, ahi, blo, bhi) ==
    LET starts == (alo..ahi) \X (blo..bhi)
        size(p) == RunLength(a, b, p[1], p[2], ahi, bhi)
        best == CHOOSE p \in starts :
                    \A r \in starts :
                        \/ size(p) > size(r)
                        \/ /\ size(p) = size(r)
                           /\ \/ p[1] < r[1]
                              \/ p[1] = r[1] /\ p[2] <= r[2]
    IN  [i |-> best[1], j |-> best[2], size |-> size(best)]

\* sum of the sizes of SequenceMatcher.get_matching_blocks(): the longest
\* block, then the same to its left and to its right
RECURSIVE Matches(_, _, _, _, _, _)
Matches(a, b, alo, ahi, blo, bhi) ==
    IF alo > ahi \/ blo > bhi THEN 0
    ELSE LET m == FindLongestMatch(a, b, alo, ahi, blo, bhi)
         IN  IF m.size = 0 THEN 0
             ELSE m.size
                  + Matches(a, b, alo, m.i - 1, blo, m.j - 1)
                  + Matches(a, b, m.i + m.size, ahi, m.j + m.size, bhi)

\* SequenceMatcher.ratio(): 2.0 * matches / (len(a) + len(b)), and 1.0 for
\* two empty sequences; kept as a fraction
Ratio(a, b) ==
    IF Len(a) + Len(b) = 0 THEN [num |-> 1, den |-> 1]
    ELSE [num |-> 2 * Matches(a, b, 1, Len(a), 1, Len(b)),
          den |-> Len(a) + Len(b)]

GetSimilarity(s1, s2) == Ratio(CleanText(s1), CleanText(s2))

\* sim >= threshold, on fractions
AtLeast(sim, threshold) ==
    sim.num * threshold.den >= threshold.num * sim.den

-----------------------------------------------------------------------------
(* streamlit/viz_utils.py: cluster_similar_questions,                      *)
(* analyze_repeated_questions                                              *)

\* mutant: the label "Unknown" counts as no value
TruthyKnown(v) == v \notin {None, "", "Unknown"}

\* Python truthiness of an Optional[str]
Truthy(v) == v # None /\ v # ""

\* sorted(..., reverse=True) is stable: q goes before the first element
\* whose text is shorter
RECURSIVE InsertByLength(_, _)
InsertByLength(sorted, q) ==
    IF sorted = <<>> THEN <<q>>
    ELSE IF Len(sorted[1].text) < Len(q.text) THEN <<q>> \o sorted
    ELSE <<sorted[1]>> \o InsertByLength(Tail(sorted), q)

RECURSIVE SortFrom(_, _, _)
SortFrom(qs, k, sorted) ==
    IF k > Len(qs) THEN sorted
    ELSE SortFrom(qs, k + 1, InsertByLength(sorted, qs[k]))

\* mutant: the sort is ascending, shortest text first
SortedQsAscending(qs) ==
    LET sorted == SortFrom(qs, 1, <<>>)
    IN  [k \in 1..Len(qs) |-> sorted[Len(qs) + 1 - k]]

\* mutant: ties of the length sort come out in reverse input order
SortedQsReversedTies(qs) ==
    SortFrom([k \in 1..Len(qs) |-> qs[Len(qs) + 1 - k]], 1, <<>>)

\* line 31
SortedQs(qs) == SortFrom(qs, 1, <<>>)

\* lines 37-43
NewCluster(q1) ==
    [text |-> q1.text,
     questions |-> <<q1>>,
     years |-> IF Truthy(q1.year) THEN {q1.year} ELSE {},
     total_marks |-> q1.marks,
     modules |-> IF Truthy(q1.module) THEN {q1.module} ELSE {}]

\* mutant: the year and the module of a new member are added unchecked
AddMemberUnchecked(cluster, q2) ==
    [text |-> cluster.text,
     questions |-> Append(cluster.questions, q2),
     years |-> cluster.years \cup {q2.year},
     total_marks |-> cluster.total_marks + q2.marks,
     modules |-> cluster.modules \cup {q2.module}]

\* lines 52-58
AddMember(cluster, q2) ==
    [text |-> cluster.text,
     questions |-> Append(cluster.questions, q2),
     years |-> IF Truthy(q2.year) THEN cluster.years \cup {q2.year}
               ELSE cluster.years,
     total_marks |-> cluster.total_marks + q2.marks,
     modules |-> IF Truthy(q2.module) THEN cluster.modules \cup {q2.module}
                 ELSE cluster.modules]

\* question texts
TcpText ==
    <<"E", "x", "p", "l", "a", "i", "n", " ", "T", "C", "P", " ", "h",
      "a", "n", "d", "s", "h", "a", "k", "e", ".">>

UdpText ==
    <<"e", "x", "p", "l", "a", "i", "n", " ", "U", "D", "P", " ", "h",
      "a", "n", "d", "s", "h", "a", "k", "e">>

OsiText ==
    <<"D", "e", "f", "i", "n", "e", " ", "O", "S", "I", " ", "l", "a",
      "y", "e", "r", "s", " ", "n", "o", "w", ".">>

MarksText == <<"?", "?">>

BangText == <<"!">>

\* ratio(Near1Text, Near2Text) is exactly 0.8 and ratio(Near2Text,
\* Near1Text) is 0.6; Near3Text is similar to Near2Text and not to Near1Text
Near1Text == <<"a", "a", "a", "b", "a">>

Near2Text == <<"a", "b", "a", "a", "b">>

Near3Text == <<"b", "a", "a", "b">>

\* a stored question
Stored(id, txt, marks, year, module) ==
    [Question(id, 1, txt, marks, year, "cn.pdf") EXCEPT !.module = module]

\* the questions a subject's bank may hold
ClusterPool ==
    { Stored("a", TcpText, 5, "2021", "Module 1"),
      Stored("b", TcpText, 10, "2022", "Module 1"),
      Stored("c", TcpText, 5, "2022", None),
      Stored("d", UdpText, 2, None, "Module 2"),
      \* a second question stored under the id "d"
      Stored("d", OsiText, 7, "2021", ""),
      Stored("f", MarksText, 0, "", None),
      Stored("g", BangText, 1, "2020", None),
      Stored("h", Near1Text, 3, "2019", "Module 1"),
      Stored("i", Near2Text, 3, "2020", "Module 1"),
      Stored("j", Near3Text, 4, "Unknown", "Module 2") }

\* get_similarity on the texts of the pool, computed once
PoolTexts == { q.text : q \in ClusterPool }

SimilarityTable ==
    { [s1 |-> a, s2 |-> b, sim |-> GetSimilarity(a, b)] :
        a \in PoolTexts, b \in PoolTexts }

SimilarityOf(s1, s2) ==
    (CHOOSE e \in SimilarityTable : e.s1 = s1 /\ e.s2 = s2).sim

\* mutant: a question is compared with the latest member, not with the seed
RECURSIVE InnerLoopChained(_, _, _, _, _, _)
InnerLoopChained(sorted_qs, i, j, cluster, processed_ids, threshold) ==
    IF j > Len(sorted_qs)
    THEN [cluster |-> cluster, processed_ids |-> processed_ids]
    ELSE IF i = j \/ sorted_qs[j].id \in processed_ids
    THEN InnerLoopChained(sorted_qs, i, j + 1, cluster, processed_ids,
                          threshold)
    ELSE IF AtLeast(SimilarityOf(
                        cluster.questions[Len(cluster.questions)].text,
                        sorted_qs[j].text),
                    threshold)
    THEN InnerLoopChained(sorted_qs, i, j + 1,
                          AddMember(cluster, sorted_qs[j]),
                          processed_ids \cup {sorted_qs[j].id}, threshold)
    ELSE InnerLoopChained(sorted_qs, i, j + 1, cluster, processed_ids,
                          threshold)

\* mutant: a question that joins a cluster is not marked as processed
RECURSIVE InnerLoopNoMark(_, _, _, _, _, _)
InnerLoopNoMark(sorted_qs, i, j, cluster, processed_ids, threshold) ==
    IF j > Len(sorted_qs)
    THEN [cluster |-> cluster, processed_ids |-> processed_ids]
    ELSE IF i = j \/ sorted_qs[j].id \in processed_ids
    THEN InnerLoopNoMark(sorted_qs, i, j + 1, cluster, processed_ids,
                         threshold)
    ELSE IF AtLeast(SimilarityOf(sorted_qs[i].text, sorted_qs[j].text),
                    threshold)
    THEN InnerLoopNoMark(sorted_qs, i, j + 1,
                         AddMember(cluster, sorted_qs[j]), processed_ids,
                         threshold)
    ELSE InnerLoopNoMark(sorted_qs, i, j + 1, cluster, processed_ids,
                         threshold)

\* the inner loop from index j on (lines 46-58)
RECURSIVE InnerLoop(_, _, _, _, _, _)
InnerLoop(sorted_qs, i, j, cluster, processed_ids, threshold) ==
    IF j > Len(sorted_qs)
    THEN [cluster |-> cluster, processed_ids |-> processed_ids]
    ELSE IF i = j \/ sorted_qs[j].id \in processed_ids
    THEN InnerLoop(sorted_qs, i, j + 1, cluster, processed_ids,
                   threshold)
    ELSE IF AtLeast(SimilarityOf(sorted_qs[i].text, sorted_qs[j].text),
                    threshold)
    THEN InnerLoop(sorted_qs, i, j + 1, AddMember(cluster, sorted_qs[j]),
                   processed_ids \cup {sorted_qs[j].id}, threshold)
    ELSE InnerLoop(sorted_qs, i, j + 1, cluster, processed_ids,
                   threshold)

\* mutant: a processed question is not skipped as a seed
RECURSIVE OuterLoopNoSkip(_, _, _, _, _)
OuterLoopNoSkip(sorted_qs, i, clusters, processed_ids, threshold) ==
    IF i > Len(sorted_qs) THEN clusters
    ELSE LET r == InnerLoop(sorted_qs, i, 1, NewCluster(sorted_qs[i]),
                            processed_ids \cup {sorted_qs[i].id}, threshold)
         IN  OuterLoopNoSkip(sorted_qs, i + 1, Append(clusters, r.cluster),
                             r.processed_ids, threshold)

\* the outer loop from index i on (lines 33-60)
RECURSIVE OuterLoop(_, _, _, _, _)
OuterLoop(sorted_qs, i, clusters, processed_ids, threshold) ==
    IF i > Len(sorted_qs) THEN clusters
    ELSE IF sorted_qs[i].id \in processed_ids
    THEN OuterLoop(sorted_qs, i + 1, clusters, processed_ids, threshold)
    ELSE LET r == InnerLoop(sorted_qs, i, 1, NewCluster(sorted_qs[i]),
                            processed_ids \cup {sorted_qs[i].id}, threshold)
         IN  OuterLoop(sorted_qs, i + 1, Append(clusters, r.cluster),
                       r.processed_ids, threshold)

ClusterSimilarQuestions(qs, threshold) ==
    OuterLoop(SortedQs(qs), 1, <<>>, {}, threshold)

\* threshold=0.8 (line 139)
HighYieldThreshold == [num |-> 4, den |-> 5]

\* mutant: every cluster of more than one question is shown
IsRepeatAnyYears(c) == Len(c.questions) > 1

\* line 150
IsRepeat(c) == Len(c.questions) > 1 /\ Cardinality(c.years) > 1

\* repeats.sort(key=(count, total_marks), reverse=True), stable
RECURSIVE InsertRepeat(_, _)
InsertRepeat(sorted, c) ==
    IF sorted = <<>> THEN <<c>>
    ELSE LET d == sorted[1]
         IN  IF \/ Len(d.questions) < Len(c.questions)
                \/ /\ Len(d.questions) = Len(c.questions)
                   /\ d.total_marks < c.total_marks
             THEN <<c>> \o sorted
             ELSE <<d>> \o InsertRepeat(Tail(sorted), c)

RECURSIVE SortRepeats(_, _, _)
SortRepeats(cs, k, sorted) ==
    IF k > Len(cs) THEN sorted
    ELSE SortRepeats(cs, k + 1, InsertRepeat(sorted, cs[k]))

\* lines 139-154: the clusters found and the ones shown, in display order
AnalyzeRepeatedQuestions(qs) ==
    LET clusters == ClusterSimilarQuestions(qs, HighYieldThreshold)
    IN  [shown |-> TRUE,
         clusters |-> clusters,
         view |-> SortRepeats(SelectSeq(clusters, IsRepeat), 1, <<>>)]

\* number of questions handed to the clustering
MaxClusterQuestions == 3

\* number of clustering calls of one behaviour
MaxRuns == 2

\* the thresholds a caller passes: the default and the view's 0.8, and 1.0
Thresholds == { HighYieldThreshold, [num |-> 1, den |-> 1] }

ClusterCall ==
    /\ pc = "cluster"
    /\ Len(runs) < MaxRuns
    /\ \E threshold \in Thresholds :
          \* the calls of one behaviour pass the same threshold
          /\ (runs # <<>> => threshold = runs[1].threshold)
          /\ runs' = Append(runs,
                         [threshold |-> threshold,
                          clusters |-> ClusterSimilarQuestions(qlist,
                                                               threshold)])
    /\ UNCHANGED <<pc, qlist, qlist0, repeats>>
    /\ UNCHANGED parseVars
    /\ UNCHANGED mapVars
    /\ UNCHANGED storeVars
    /\ UNCHANGED concVars

Analyze ==
    /\ pc = "cluster"
    /\ ~repeats.shown
    /\ repeats' = AnalyzeRepeatedQuestions(qlist)
    /\ UNCHANGED <<pc, qlist, qlist0, runs>>
    /\ UNCHANGED parseVars
    /\ UNCHANGED mapVars
    /\ UNCHANGED storeVars
    /\ UNCHANGED concVars

InitCluster ==
    /\ qlist \in SeqsUpTo(ClusterPool, MaxClusterQuestions)
    /\ qlist0 = qlist
    /\ runs = <<>>
    /\ repeats = [shown |-> FALSE, clusters |-> <<>>, view |-> <<>>]
    /\ pc = "cluster"
    /\ ParseIdle
    /\ MapIdle
    /\ StoreIdle
    /\ ConcIdle

NextCluster ==
    \/ ClusterCall
    \/ Analyze

SpecCluster == InitCluster /\ [][NextCluster]_vars

-----------------------------------------------------------------------------
(* Claims                                                                  *)

\* the text contains a match of the year pattern
HasYearPattern(t) == \E p \in 1..Len(t) : YearMatchAt(t, p)

\* C7: for every text with no year pattern the segmenter returns exactly one
\* section, (default_year, text), with the text unmodified.
C7_NoYearSingleSection ==
    (pc = "segmented" /\ ~HasYearPattern(text))
        => sections = << <<default_year, text>> >>

\* a segmented text without a year pattern that strip() would change
C7_Witness ==
    /\ pc = "segmented"
    /\ ~HasYearPattern(text)
    /\ Len(text) >= 2
    /\ text[1] \in Whitespace
    /\ sections = << <<default_year, text>> >>

\* the bulk call was made and did not yield a QuestionBank
BulkFailed == Len(calls) >= 1 /\ calls[1].outcome # "ok"

\* the bulk call was made and yielded a QuestionBank
BulkOk == Len(calls) >= 1 /\ calls[1].outcome = "ok"

\* C1: no service exception escapes parse_questions_from_text: it returns a
\* list whatever fails, and the empty list when every call failed.
C1_NoExceptionEscapes ==
    /\ pc \in {"bulk", "fallback", "done"}
    /\ pc = "done" => DOMAIN result = 1..Len(result)
    /\ (pc = "done" /\ \A i \in 1..Len(calls) : calls[i].outcome # "ok")
          => result = <<>>

\* the bulk call and two section calls all failed, and [] was returned
C1_Witness ==
    /\ pc = "done"
    /\ Len(calls) >= 3
    /\ \A i \in 1..Len(calls) : calls[i].outcome # "ok"
    /\ \E i \in 1..Len(calls) : calls[i].outcome = "raise"
    /\ result = <<>>

\* the questions of the successful calls of cs, each with its call's year
\* and the caller's paper name, concatenated in call order
RECURSIVE CollectedFrom(_, _)
CollectedFrom(cs, pname) ==
    IF cs = <<>> THEN <<>>
    ELSE (IF cs[1].outcome = "ok"
          THEN [i \in 1..Len(cs[1].returned) |->
                  [cs[1].returned[i] EXCEPT !.year = cs[1].year,
                                            !.paper_name = pname]]
          ELSE <<>>)
         \o CollectedFrom(Tail(cs), pname)

NonBlank(sec) == Strip(sec[2]) # <<>>

\* C2: after a failed bulk call the result is the concatenation, in segmenter
\* order, of the lists of the sections whose call succeeded, and every
\* non-blank section was submitted exactly once, in order.
C2_FallbackCollectsSucceededSections ==
    (pc = "done" /\ BulkFailed) =>
        /\ sections = ExtractYearSections(text, default_year)
        /\ [i \in 1..(Len(calls) - 1) |->
               <<calls[i + 1].year, calls[i + 1].text>>]
             = SelectSeq(sections, NonBlank)
        /\ result = CollectedFrom(Tail(calls), paper_name)

\* the first section failed, the second was still submitted and succeeded
C2_Witness ==
    /\ pc = "done"
    /\ BulkFailed
    /\ Len(calls) = 3
    /\ calls[2].outcome = "raise"
    /\ calls[3].outcome = "ok"
    /\ Len(calls[3].returned) >= 1
    /\ Len(result) = Len(calls[3].returned)

\* q and r agree on every field the orchestrator does not stamp
SameExtraction(q, r) ==
    /\ q.id = r.id
    /\ q.number = r.number
    /\ q.part = r.part
    /\ q.text = r.text
    /\ q.marks = r.marks
    /\ q.module = r.module
    /\ q.topic = r.topic

\* C3: the fallback tier is entered only after the bulk call failed; a bulk
\* call that succeeds (even with no question) is the only service call, the
\* segmenter is not used and the bulk list is returned; the bulk call is
\* never repeated.
C3_FallbackOnlyAfterBulkFailure ==
    /\ pc = "fallback" => BulkFailed
    /\ seg_calls > 0 => BulkFailed
    /\ \A i \in 1..Len(calls) : (calls[i].tier = "bulk") <=> (i = 1)
    /\ BulkOk =>
          /\ Len(calls) = 1
          /\ seg_calls = 0
          /\ pc = "done"
          /\ Len(result) = Len(calls[1].returned)
          /\ \A i \in 1..Len(result) :
                SameExtraction(result[i], calls[1].returned[i])

\* a bulk call that returned no question on a text that has year sections
C3_Witness ==
    /\ pc = "done"
    /\ BulkOk
    /\ calls[1].returned = <<>>
    /\ result = <<>>
    /\ HasYearPattern(text)
    /\ seg_calls = 0

\* C4: every returned question has year and paper_name set, and paper_name
\* is the caller's paper name, in both tiers.
C4_YearAndPaperNameSet ==
    pc = "done" =>
        \A i \in 1..Len(result) :
            /\ result[i].year # None
            /\ result[i].paper_name # None
            /\ result[i].paper_name = paper_name

\* the service returned year and paper_name null and both were filled in
C4_Witness ==
    /\ pc = "done"
    /\ BulkOk
    /\ Len(result) >= 1
    /\ calls[1].returned[1].year = None
    /\ calls[1].returned[1].paper_name = None
    /\ result[1].year = default_year
    /\ result[1].paper_name = paper_name

FourDigitStrings ==
    { a \o b \o c \o d : a \in Digit, b \in Digit, c \in Digit, d \in Digit }

\* a four-digit string or "Unknown"
WellFormedYear(y) == y = "Unknown" \/ y \in FourDigitStrings

\* C5: with a well-formed default_year and a service that returns only
\* four-digit, empty or "Unknown" years, every returned question's year is
\* a four-digit string or "Unknown".
C5_ReturnedYearWellFormed ==
    ( /\ pc = "done"
      /\ WellFormedYear(default_year)
      /\ \A i \in 1..Len(calls) : \A j \in 1..Len(calls[i].returned) :
            LET y == calls[i].returned[j].year
            IN  y = None \/ y = "" \/ WellFormedYear(y) )
    => \A i \in 1..Len(result) : WellFormedYear(result[i].year)

\* the year each question of the successful calls of cs gets in the
\* fallback tier: the year label its section was submitted with
RECURSIVE SectionYears(_)
SectionYears(cs) ==
    IF cs = <<>> THEN <<>>
    ELSE (IF cs[1].outcome = "ok"
          THEN [i \in 1..Len(cs[1].returned) |-> cs[1].year]
          ELSE <<>>)
         \o SectionYears(Tail(cs))

\* C6: in the bulk tier a year is replaced by default_year iff the service
\* gave it empty, null or "Unknown", and is otherwise returned unchanged;
\* in the fallback tier every question's year is its section's label.
C6_YearStamping ==
    pc = "done" =>
        /\ BulkOk =>
              \A i \in 1..Len(result) :
                 LET y == calls[1].returned[i].year
                 IN  result[i].year =
                        IF y = None \/ y = "" \/ y = "Unknown"
                        THEN default_year ELSE y
        /\ BulkFailed =>
              /\ [i \in 1..Len(result) |-> result[i].year]
                    = SectionYears(Tail(calls))
              /\ \A i \in 2..Len(calls) :
                    \E k \in 1..Len(sections) :
                        /\ sections[k][2] = calls[i].text
                        /\ sections[k][1] = calls[i].year

\* a bulk list holding "Unknown", which was replaced by a different
\* default_year
C6_Witness ==
    /\ pc = "done"
    /\ BulkOk
    /\ Len(result) >= 1
    /\ calls[1].returned[1].year = "Unknown"
    /\ default_year = "2018"
    /\ result[1].year = "2018"

\* the module labels of a mapping
Labels(mapping) == { mapping[k][1] : k \in 1..Len(mapping) }

\* the positions of the mapping whose number list holds n
Listing(mapping, n) ==
    { k \in 1..Len(mapping) :
        \E j \in 1..Len(mapping[k][2]) : mapping[k][2][j] = n }

Max(S) == CHOOSE x \in S : \A y \in S : y <= x

\* C9: a question whose number is listed under several modules gets the
\* module that comes last in the mapping's iteration order.
C9_LastModuleWins ==
    pc = "mapped" =>
        \A i \in 1..Len(result) :
            LET ks == Listing(pattern, result[i].number)
            IN  ks # {} => result[i].module = pattern[Max(ks)][1]

\* a number claimed by two modules, mapped to the later one
C9_Witness ==
    /\ pc = "mapped"
    /\ \E i \in 1..Len(result) :
          LET ks == Listing(pattern, result[i].number)
          IN  /\ Cardinality(ks) >= 2
              /\ result[i].module = pattern[Max(ks)][1]
              /\ \E k \in ks : pattern[k][1] # result[i].module

\* the lists passed to the saves so far, concatenated
RECURSIVE Flatten(_)
Flatten(lists) ==
    IF lists = <<>> THEN <<>> ELSE lists[1] \o Flatten(Tail(lists))

\* the question array of a file in the wrapped form
StoredQuestions(f) == f.content.o["questions"].a

\* the last n elements of a sequence
Suffix(seq, n) == SubSeq(seq, Len(seq) - n + 1, Len(seq))

\* a load made after the latest save
LoadedFresh == loaded.kind # "unset" /\ loaded.after = Len(saved)

\* C10: successive saves leave the file one save of the concatenated lists
\* leaves; the new questions are at the end of the bank in the order given;
\* a load after the save returns the stored sequence, every field of the
\* saved questions unchanged.
C10_SaveAppendsAndRoundTrips ==
    Len(saved) >= 1 =>
        LET new == Flatten(saved)
        IN  /\ \E uuids \in UuidSupplies :
                  file = SaveResult(file0, new, uuids)
            /\ Len(StoredQuestions(file)) >= Len(new)
            /\ Suffix(StoredQuestions(file), Len(new))
                  = [i \in 1..Len(new) |-> EncodeQuestion(new[i])]
            /\ LoadedFresh =>
                  /\ loaded.kind = "list"
                  /\ Len(loaded.v) = Len(StoredQuestions(file))
                  /\ \A i \in 1..Len(loaded.v) :
                        loaded.v[i] = Decode(StoredQuestions(file)[i])
                  /\ Suffix(loaded.v, Len(new)) = new

\* two different non-empty saves on a bank that held questions, then a load
C10_Witness ==
    /\ Len(saved) = 2
    /\ saved[1] # <<>>
    /\ saved[2] # <<>>
    /\ saved[1] # saved[2]
    /\ LoadedFresh
    /\ CurrentBank(file0, <<"u1", "u2">>) # <<>>
    /\ Len(loaded.v) = Len(CurrentBank(file0, <<"u1", "u2">>))
                          + Len(saved[1]) + Len(saved[2])
    /\ Suffix(loaded.v, Len(saved[2])) = saved[2]

\* the question elements a file holds, in either form; none when it is
\* absent or holds no question array
ElementsOf(f) ==
    IF ~f.exists THEN <<>>
    ELSE IF f.content.t = "array" THEN f.content.a
    ELSE IF /\ f.content.t = "object"
            /\ "questions" \in DOMAIN f.content.o
            /\ f.content.o["questions"].t = "array"
         THEN f.content.o["questions"].a
    ELSE <<>>

\* an element as save itself writes one: valid, with every field present
Complete(j) ==
    /\ ValidQuestion(j)
    /\ j = EncodeQuestion(ValidateQuestion(j, "u1"))

\* a file that is absent or holds a bank of complete questions, in either
\* form
WellFormedFile(f) ==
    \/ ~f.exists
    \/ /\ f.content.t = "array"
       /\ \A i \in 1..Len(f.content.a) : Complete(f.content.a[i])
    \/ /\ f.content.t = "object"
       /\ "questions" \in DOMAIN f.content.o
       /\ f.content.o["questions"].t = "array"
       /\ \A i \in 1..Len(f.content.o["questions"].a) :
             Complete(f.content.o["questions"].a[i])

IsPrefix(a, b) == Len(a) <= Len(b) /\ SubSeq(b, 1, Len(a)) = a

\* C11: starting from an absent or well-formed file every save only appends:
\* the sequence stored before is a prefix of the sequence stored after, and
\* the length grows by exactly the number of new questions (no dedup).
C11_SaveOnlyAppends ==
    [][ (WellFormedFile(file0) /\ saved' # saved) =>
            LET new == saved'[Len(saved')]
            IN  /\ WellFormedFile(file)
                /\ IsPrefix(ElementsOf(file), ElementsOf(file'))
                /\ Len(ElementsOf(file'))
                      = Len(ElementsOf(file)) + Len(new)
                /\ Suffix(ElementsOf(file'), Len(new))
                      = [i \in 1..Len(new) |-> EncodeQuestion(new[i])] ]_vars

\* the same non-empty list saved twice on a bank that held questions: both
\* copies are stored
C11_Witness ==
    /\ WellFormedFile(file0)
    /\ ElementsOf(file0) # <<>>
    /\ Len(saved) = 2
    /\ saved[1] = saved[2]
    /\ saved[1] # <<>>
    /\ Len(ElementsOf(file)) = Len(ElementsOf(file0)) + 2 * Len(saved[1])
    /\ IsPrefix(ElementsOf(file0), ElementsOf(file))

\* C12: a legacy file and a wrapped file holding the same questions are
\* indistinguishable: a load returns equal values for both, and the same
\* saves leave equal files.
C12_LegacyAndWrappedAgree ==
    /\ GetAnalyzedQuestions(file) = GetAnalyzedQuestions(twin)
    /\ LoadedFresh =>
          /\ loaded.kind = loaded.twin.kind
          /\ loaded.v = loaded.twin.v
    /\ Len(saved) >= 1 => file = twin

\* a legacy array and its wrapped twin after the same non-empty save, loaded
C12_Witness ==
    /\ file0.exists
    /\ file0.content.t = "array"
    /\ AllValid(file0.content.a)
    /\ Len(saved) = 1
    /\ saved[1] # <<>>
    /\ LoadedFresh
    /\ Len(loaded.v) = Len(file0.content.a) + Len(saved[1])
    /\ loaded.v = loaded.twin.v
    /\ file = twin

\* C13: after every completed save the file is a wrapped object with a
\* questions array, whatever it was before.
C13_FileWrappedAfterSave ==
    Len(saved) >= 1 =>
        /\ file.exists
        /\ file.content.t = "object"
        /\ DOMAIN file.content.o = {"questions"}
        /\ file.content.o["questions"].t = "array"

\* a legacy bare array that a save rewrote as a wrapped object, its
\* questions kept
C13_Witness ==
    /\ file0.exists
    /\ file0.content.t = "array"
    /\ AllValid(file0.content.a)
    /\ Len(saved) = 1
    /\ file.content.t = "object"
    /\ Len(file.content.o["questions"].a)
          = Len(file0.content.a) + Len(saved[1])

\* a file whose content save cannot turn into a bank: not JSON, JSON that is
\* neither a list nor a dict, or a list / questions value that fails
\* validation
Unreadable(f) ==
    /\ f.exists
    /\ \/ f.content.t \notin {"array", "object"}
       \/ f.content.t = "array" /\ ~AllValid(f.content.a)
       \/ /\ f.content.t = "object"
          /\ "questions" \in DOMAIN f.content.o
          /\ ~ ( /\ f.content.o["questions"].t = "array"
                 /\ AllValid(f.content.o["questions"].a) )

\* C14: a save on a file that cannot be parsed into a bank completes and
\* leaves exactly the new questions, in order.
C14_UnreadableFileReplaced ==
    [][ (Unreadable(file) /\ saved' # saved) =>
            LET new == saved'[Len(saved')]
            IN  /\ file'.exists
                /\ ElementsOf(file')
                      = [i \in 1..Len(new) |-> EncodeQuestion(new[i])] ]_vars

\* a legacy list with one valid and one invalid element, replaced by a save
C14_Witness ==
    /\ Unreadable(file0)
    /\ file0.content.t = "array"
    /\ \E i \in 1..Len(file0.content.a) : ValidQuestion(file0.content.a[i])
    /\ Len(saved) = 1
    /\ saved[1] # <<>>
    /\ ElementsOf(file)
          = [i \in 1..Len(saved[1]) |-> EncodeQuestion(saved[1][i])]

\* C15: a load returns a sequence for every file content, and the empty
\* sequence when the file is absent or cannot be read as a bank.
C15_LoadReturnsSequence ==
    LoadedFresh =>
        /\ loaded.kind = "list"
        /\ (~file.exists \/ file.content.t \notin {"array", "object"})
              => loaded.v = <<>>

\* start positions of the year matches in the segmented text
MatchPositions == FindIter(text, 1)

\* the stripped text before the first match
Preamble == Strip(SubSeq(text, 1, MatchPositions[1] - 1))

\* number of sections that precede the first match's section
PreambleCount == IF Preamble = <<>> THEN 0 ELSE 1

\* the stripped text from match i up to the next match or the end
MatchSpan(i) ==
    LET from == MatchPositions[i]
        to == IF i < Len(MatchPositions) THEN MatchPositions[i + 1] - 1
              ELSE Len(text)
    IN  Strip(SubSeq(text, from, to))

\* the four digits matched at match i
MatchedYear(i) ==
    ToStr(SubSeq(text, MatchPositions[i], MatchPositions[i] + 3))

\* C19: every section that begins at a matched year is labelled with that
\* four-digit year, and default_year labels only a section with no year
\* pattern in its first 500 characters.
C19_SectionLabelledWithItsYear ==
    (pc = "segmented" /\ MatchPositions # <<>>) =>
        /\ \A i \in 1..Len(MatchPositions) :
              sections[PreambleCount + i][1] = MatchedYear(i)
        /\ \A k \in 1..Len(sections) :
              sections[k][1] = default_year
                  => ~HasYearPattern(SubSeq(sections[k][2], 1,
                                            Min(HeaderWindow, Len(sections[k][2]))))

\* C20: for a text with n >= 1 matches the sections are, in ascending
\* position, the non-blank text before the first match (if any) and then one
\* section per match spanning to the next match or the end: between 1 and
\* n + 1 sections.
C20_OneSectionPerMatch ==
    (pc = "segmented" /\ MatchPositions # <<>>) =>
        LET n == Len(MatchPositions)
        IN  /\ Len(sections) = n + PreambleCount
            /\ Len(sections) >= 1
            /\ Len(sections) <= n + 1
            /\ PreambleCount = 1 => sections[1][2] = Preamble
            /\ \A i \in 1..n :
                  /\ sections[PreambleCount + i][2] = MatchSpan(i)
                  /\ SubSeq(sections[PreambleCount + i][2], 1, 4)
                        = SubSeq(text, MatchPositions[i], MatchPositions[i] + 3)

\* two matches after a non-blank preamble: three sections
C20_Witness ==
    /\ pc = "segmented"
    /\ Len(MatchPositions) = 2
    /\ PreambleCount = 1
    /\ Len(sections) = 3
    /\ sections[1][2] = Preamble
    /\ sections[3][2] = MatchSpan(2)

\* position of an operation in the order of the concurrent saves
At(p, op) == CHOOSE i \in 1..Len(order) : order[i] = Event(p, op)

BothSavesDone == \A p \in Procs : cpc[p] = "done"

\* both saves read the file before either opened it for writing
BothReadFirst ==
    \A p \in Procs, q \in Procs : At(p, "read") < At(q, "open")

\* save p completed before save q began
RanBefore(p, q) == At(p, "dump") < At(q, "read")

\* the encoded questions of a bank
Encoded(bank) == [i \in 1..Len(bank) |-> EncodeQuestion(bank[i])]

\* C16: save is an unlocked read-merge-write. When both concurrent saves
\* read the file before either writes, the bank ends with the questions the
\* file held and the new questions of the last writer only; when one save
\* runs after the other, the new questions of both are kept, in that order.
C16_LastWriterWins ==
    BothSavesDone =>
        \A p \in Procs : \A q \in Procs \ {p} :
            /\ (BothReadFirst /\ At(p, "dump") < At(q, "dump")) =>
                  \E uuids \in UuidSupplies :
                      ElementsOf(file)
                          = Encoded(CurrentBank(file0, uuids) \o cnew[q])
            /\ RanBefore(p, q) =>
                  \E uuids \in UuidSupplies :
                      ElementsOf(file)
                          = Encoded(CurrentBank(file0, uuids)
                                        \o cnew[p] \o cnew[q])

\* a lost update: both saves read a bank of two questions, and the file ends
\* with those two and the second writer's questions, the first writer's gone
C16_Witness ==
    /\ BothSavesDone
    /\ BothReadFirst
    /\ At(1, "dump") < At(2, "dump")
    /\ WellFormedFile(file0)
    /\ Len(ElementsOf(file0)) = 2
    /\ cnew[1] # cnew[2]
    /\ ElementsOf(file) = ElementsOf(file0) \o Encoded(cnew[2])
    /\ \A i \in 1..Len(ElementsOf(file)) :
          ElementsOf(file)[i] # EncodeQuestion(cnew[1][1])

\* the year values the members of a cluster carry; None and "" are no year
YearValues(members) ==
    { members[k].year : k \in 1..Len(members) } \ {None, ""}

\* the cluster is in the high-yield view
Shown(c) == \E v \in 1..Len(repeats.view) : repeats.view[v] = c

\* q is a member of cluster c
MemberOf(q, c) == \E m \in 1..Len(c.questions) : c.questions[m] = q

Rank(i) ==
    1 + Cardinality({ j \in 1..Len(qlist0) :
                        \/ Len(qlist0[j].text) > Len(qlist0[i].text)
                        \/ /\ Len(qlist0[j].text) = Len(qlist0[i].text)
                           /\ j < i })

\* the questions of seq are input questions, listed in the length order
InLengthOrder(seq) ==
    \E f \in [1..Len(seq) -> 1..Len(qlist0)] :
        /\ \A k \in 1..Len(seq) : qlist0[f[k]] = seq[k]
        /\ \A k \in 1..Len(seq) : \A l \in 1..Len(seq) :
              k < l => Rank(f[k]) < Rank(f[l])

\* C18: clustering leaves its input unchanged, two calls with the same
\* threshold return the same clusters in the same order, and clusters and
\* their members follow the stable length order of the input.
C18_ClusteringDeterministic ==
    /\ qlist = qlist0
    /\ \A i \in 1..Len(runs) : \A j \in 1..Len(runs) :
          runs[i].threshold = runs[j].threshold
              => runs[i].clusters = runs[j].clusters
    /\ \A r \in 1..Len(runs) :
          LET cs == runs[r].clusters
          IN  /\ InLengthOrder([k \in 1..Len(cs) |-> cs[k].questions[1]])
              /\ \A k \in 1..Len(cs) : InLengthOrder(cs[k].questions)

\* two calls on two dissimilar texts of equal length: two clusters, in input
\* order, both times
C18_Witness ==
    /\ Len(runs) = 2
    /\ runs[1].threshold = runs[2].threshold
    /\ Len(qlist) = 2
    /\ qlist[1].text = OsiText
    /\ qlist[2].text = TcpText
    /\ Len(runs[1].clusters) = 2
    /\ runs[1].clusters[1].questions = <<qlist[1]>>
    /\ runs[1].clusters[2].questions = <<qlist[2]>>
    /\ runs[2] = runs[1]

\* C21: for every input text, the empty and the whitespace-only text
\* included, no returned section is empty after trimming.
C21_NoBlankSection ==
    pc = "segmented" =>
        \A k \in 1..Len(sections) : Strip(sections[k][2]) # <<>>

\* the file can be read as a bank by save
Readable(f) == ~f.exists \/ f.content.t \in {"array", "object"}

\* C22: a save that stops after opening the file for writing and before the
\* write completes leaves a file that is neither the bank before the save
\* nor the bank after it, and the next save stores only its own questions.
C22_CrashLosesBank ==
    cpc[1] = "crashed" =>
        /\ cpc[2] = "read" =>
              /\ file.exists
              /\ file.content.t = "unparseable"
              /\ file.content # EncodeBank(cbank[1])
              /\ Readable(file0) => file # file0
        /\ cpc[2] = "done" => ElementsOf(file) = Encoded(cnew[2])

\* a bank of two questions, a stopped save, and a next save after which the
\* file holds the next save's questions only
C22_Witness ==
    /\ cpc[1] = "crashed"
    /\ cpc[2] = "done"
    /\ WellFormedFile(file0)
    /\ Len(ElementsOf(file0)) = 2
    /\ ElementsOf(file) = Encoded(cnew[2])
    /\ \A i \in 1..Len(ElementsOf(file)) :
          ElementsOf(file)[i] \notin { ElementsOf(file0)[k] : k \in 1..2 }

\* the ids of the input are pairwise distinct
DistinctIds(qs) ==
    \A i \in 1..Len(qs) : \A j \in 1..Len(qs) : qs[i].id = qs[j].id => i = j

\* number of members of cluster k of cs and of the clusters after it
RECURSIVE MemberCount(_, _)
MemberCount(cs, k) ==
    IF k > Len(cs) THEN 0
    ELSE Len(cs[k].questions) + MemberCount(cs, k + 1)

\* number of (cluster, position) places of cs that hold question q
Places(cs, q) ==
    Cardinality({ p \in (1..Len(cs)) \X (1..MaxClusterQuestions) :
                    /\ p[2] <= Len(cs[p[1]].questions)
                    /\ cs[p[1]].questions[p[2]] = q })

\* C23: for an input with pairwise distinct ids the clusters partition the
\* input: every question is in exactly one cluster, once; no cluster is
\* empty; the member counts sum to the number of input questions.
C23_ClustersPartitionInput ==
    \A r \in 1..Len(runs) :
        DistinctIds(qlist0) =>
            LET cs == runs[r].clusters
            IN  /\ \A i \in 1..Len(qlist0) : Places(cs, qlist0[i]) = 1
                /\ \A k \in 1..Len(cs) : cs[k].questions # <<>>
                /\ MemberCount(cs, 1) = Len(qlist0)
                /\ \A k \in 1..Len(cs) : \A m \in 1..Len(cs[k].questions) :
                      \E i \in 1..Len(qlist0) : qlist0[i] = cs[k].questions[m]

\* three questions with distinct ids in two clusters
C23_Witness ==
    /\ Len(runs) >= 1
    /\ Len(qlist0) = 3
    /\ DistinctIds(qlist0)
    /\ Len(runs[1].clusters) = 2
    /\ Len(runs[1].clusters[1].questions) = 2
    /\ MemberCount(runs[1].clusters, 1) = 3

\* the seed of a cluster: its first member
Seed(c) == c.questions[1]

\* the similarity the clustering computes for a seed and another question:
\* get_similarity(seed.text, other.text) >= threshold
SimilarToSeed(seed, q, threshold) ==
    AtLeast(SimilarityOf(seed.text, q.text), threshold)

\* ratio >= threshold with the texts in either order
SimilarEitherWay(q1, q2, threshold) ==
    \/ AtLeast(SimilarityOf(q1.text, q2.text), threshold)
    \/ AtLeast(SimilarityOf(q2.text, q1.text), threshold)

FirstIndex(q) == CHOOSE i \in 1..Len(qlist0) :
                    /\ qlist0[i] = q
                    /\ \A j \in 1..(i - 1) : qlist0[j] # q

\* C25: in every cluster the representative text is the seed's text, no
\* member has a longer raw text, and of the members of maximal length the
\* seed is the first in input order.
C25_RepresentativeIsLongest ==
    \A r \in 1..Len(runs) : \A k \in 1..Len(runs[r].clusters) :
        LET c == runs[r].clusters[k]
        IN  /\ c.text = Seed(c).text
            /\ \A m \in 1..Len(c.questions) :
                  Len(c.questions[m].text) <= Len(c.text)
            /\ \A m \in 2..Len(c.questions) :
                  Len(c.questions[m].text) = Len(c.text)
                      => FirstIndex(Seed(c)) < FirstIndex(c.questions[m])

\* a shorter question given first and a longer similar one: the longer is
\* the representative
C25_Witness ==
    /\ Len(runs) >= 1
    /\ Len(qlist0) = 2
    /\ Len(qlist0[1].text) < Len(qlist0[2].text)
    /\ Len(runs[1].clusters) = 1
    /\ runs[1].clusters[1].text = qlist0[2].text
    /\ runs[1].clusters[1].questions = <<qlist0[2], qlist0[1]>>

\* the module values the members of a cluster carry; None and "" are none
ModuleValues(members) ==
    { members[k].module : k \in 1..Len(members) } \ {None, ""}

\* sum of the marks of members k, k+1, ...
RECURSIVE MarksFrom(_, _)
MarksFrom(members, k) ==
    IF k > Len(members) THEN 0
    ELSE members[k].marks + MarksFrom(members, k + 1)

\* C26: for every cluster, years is exactly the set of non-empty year values
\* of its members, modules the set of their non-empty module values, and
\* total_marks the sum of their marks, each member counted once.
C26_ClusterAggregates ==
    \A r \in 1..Len(runs) : \A k \in 1..Len(runs[r].clusters) :
        LET c == runs[r].clusters[k]
        IN  /\ c.years = YearValues(c.questions)
            /\ c.modules = ModuleValues(c.questions)
            /\ c.total_marks = MarksFrom(c.questions, 1)

\* a cluster of three members, one without a year and one without a module
C26_Witness ==
    /\ Len(runs) >= 1
    /\ Len(runs[1].clusters) = 1
    /\ LET c == runs[1].clusters[1]
       IN  /\ Len(c.questions) = 3
           /\ \E m \in 1..3 : c.questions[m].year = None
           /\ \E m \in 1..3 : c.questions[m].module = None
           /\ Cardinality(c.years) = 2
           /\ Cardinality(c.modules) = 2
           /\ c.total_marks = c.questions[1].marks + c.questions[2].marks
                                  + c.questions[3].marks

\* the ids of the input
InputIds == { qlist0[i].id : i \in 1..Len(qlist0) }

\* q is a member of some cluster of cs
Clustered(cs, q) == \E k \in 1..Len(cs) : MemberOf(q, cs[k])

\* number of (cluster, position) places of cs that hold a question with id
PlacesOfId(cs, id) ==
    Cardinality({ p \in (1..Len(cs)) \X (1..MaxClusterQuestions) :
                    /\ p[2] <= Len(cs[p[1]].questions)
                    /\ cs[p[1]].questions[p[2]].id = id })

\* two different questions of the input stored under one id
SharedId(i, j) ==
    /\ qlist0[i].id = qlist0[j].id
    /\ qlist0[i] # qlist0[j]

\* C29 (as amended): assignment is tracked by id only. Each id of the input
\* has exactly one place in the clusters, so of two questions that share an
\* id only the one assigned first is in a cluster, the other is in none,
\* and the member counts sum to the number of distinct ids, less than the
\* number of input questions when an id repeats.
C29_OnePlacePerId ==
    \A r \in 1..Len(runs) :
        LET cs == runs[r].clusters
        IN  /\ \A id \in InputIds : PlacesOfId(cs, id) = 1
            /\ MemberCount(cs, 1) = Cardinality(InputIds)
            /\ ~DistinctIds(qlist0) => MemberCount(cs, 1) < Len(qlist0)
            /\ \A i \in 1..Len(qlist0) : \A j \in 1..Len(qlist0) :
                  SharedId(i, j) =>
                      ~(Clustered(cs, qlist0[i]) /\ Clustered(cs, qlist0[j]))

\* two questions share an id; the one later in the longest-first order has
\* joined an earlier seed and the one before it is in no cluster
C29_Witness ==
    /\ Len(runs) >= 1
    /\ \E i \in 1..Len(qlist0) : \E j \in 1..Len(qlist0) :
          /\ SharedId(i, j)
          /\ Rank(i) < Rank(j)
          /\ Clustered(runs[1].clusters, qlist0[j])
          /\ ~Clustered(runs[1].clusters, qlist0[i])
          /\ MemberCount(runs[1].clusters, 1) = Len(qlist0) - 1

\* C29 as stated: of two questions sharing an id, the one that comes later
\* in the longest-first order is in no cluster.
C29_LaterOneDropped ==
    \A r \in 1..Len(runs) :
        \A i \in 1..Len(qlist0) : \A j \in 1..Len(qlist0) :
            (SharedId(i, j) /\ Rank(i) < Rank(j))
                => ~Clustered(runs[r].clusters, qlist0[j])

\* some member of the cluster carries the year y
CarriesYear(c, y) == \E m \in 1..Len(c.questions) : c.questions[m].year = y

\* some member of the cluster carries a year other than "Unknown"
CarriesRealYear(c) ==
    \E m \in 1..Len(c.questions) :
        c.questions[m].year \notin {None, "", "Unknown"}

\* C30: the high-yield test counts "Unknown" like any year label: a cluster
\* with one real year and "Unknown" is shown; a null or empty year adds
\* nothing, so a cluster with one year and members without a year is not.
C30_UnknownCountsAsYear ==
    repeats.shown =>
        \A k \in 1..Len(repeats.clusters) :
            LET c == repeats.clusters[k]
            IN  /\ "Unknown" \in c.years <=> CarriesYear(c, "Unknown")
                /\ None \notin c.years
                /\ "" \notin c.years
                /\ (CarriesYear(c, "Unknown") /\ CarriesRealYear(c))
                      => Shown(c)
                /\ ( /\ CarriesYear(c, None) \/ CarriesYear(c, "")
                     /\ Cardinality(YearValues(c.questions)) = 1 )
                      => ~Shown(c)

\* a cluster of a 2020 question and an "Unknown" one, shown in the view
C30_Witness ==
    /\ repeats.shown
    /\ Len(repeats.view) = 1
    /\ Len(repeats.view[1].questions) = 2
    /\ repeats.view[1].years = {"2020", "Unknown"}
    /\ CarriesYear(repeats.view[1], "Unknown")

\* C27: load and save agree on the current bank: what a load returns before
\* a save is a prefix of what it returns after that save, for every content
\* of the file.
C27_LoadPrefixAcrossSave ==
    [][ saved' # saved =>
            LET before == GetAnalyzedQuestions(file)
                after == GetAnalyzedQuestions(file')
            IN  before.kind = "list" =>
                    /\ after.kind = "list"
                    /\ IsPrefix(before.v, after.v) ]_vars

-----------------------------------------------------------------------------
(* cli.py ingest_paper over QuestionPaperAnalyzer.analyze_paper             *)

\* exam_analysis.py line 185, `if not text`: only the empty string is falsy
NotText(t) == t = <<>>

\* mutant: the save is made whatever the analysis returned
NotQuestionsNever(qs) == FALSE

\* cli.py line 139, `if not questions`: only the empty list is falsy
NotQuestions(qs) == qs = <<>>

\* the text extract_text returns for the PDF: nothing, blanks only, a paper
\* without a year header, papers with one and with two year headers
IngestTexts ==
    { <<>>,
      <<" ">>,
      <<"Q">>,
      <<"2", "0", "1", "9", " ", "Q">>,
      <<"Q", " ", "2", "0", "1", "9", " ", "1", "9", "9", "8", "Q">> }

\* module mappings of the pattern loaded from data/exam_patterns
IngestPatterns == { <<>>, << <<"Module 1", <<1, 2>>>> >> }

\* the subject's bank file before the ingestion
IngestFiles ==
    { [exists |-> FALSE],
      [exists |-> TRUE, content |-> EncodeBank(<<Old1>>)],
      [exists |-> TRUE, content |-> Unparseable] }

\* lines 184-186: no text, analyze_paper returns []
AnalyzeNoText ==
    /\ pc = "analyze"
    /\ NotText(text)
    /\ questions' = <<>>
    /\ pc' = "analyzed"
    /\ UNCHANGED parseVars
    /\ UNCHANGED pattern
    /\ UNCHANGED storeVars
    /\ UNCHANGED concVars
    /\ UNCHANGED clusterVars

\* line 188: the text goes to parse_questions_from_text
AnalyzeParse ==
    /\ pc = "analyze"
    /\ ~NotText(text)
    /\ pc' = "bulk"
    /\ UNCHANGED parseVars
    /\ UNCHANGED mapVars
    /\ UNCHANGED storeVars
    /\ UNCHANGED concVars
    /\ UNCHANGED clusterVars

\* lines 191-194: the parsed questions are mapped in place and returned
AnalyzeMap ==
    /\ pc = "done"
    /\ questions' = MapQuestionsToModules(result, pattern)
    /\ result' = questions'
    /\ pc' = "analyzed"
    /\ UNCHANGED <<text, default_year, paper_name, sections, seg_calls,
                   sec_idx, calls, all_questions, pattern>>
    /\ UNCHANGED storeVars
    /\ UNCHANGED concVars
    /\ UNCHANGED clusterVars

\* cli.py lines 139-141: nothing extracted, the command returns
IngestReturn ==
    /\ pc = "analyzed"
    /\ NotQuestions(questions)
    /\ pc' = "returned"
    /\ UNCHANGED parseVars
    /\ UNCHANGED mapVars
    /\ UNCHANGED storeVars
    /\ UNCHANGED concVars
    /\ UNCHANGED clusterVars

\* cli.py lines 143-145: kb.save_analyzed_questions(questions, subject)
IngestSave ==
    /\ pc = "analyzed"
    /\ ~NotQuestions(questions)
    /\ \E uuids \in UuidSupplies :
        file' = SaveResult(file, questions, uuids)
    /\ saved' = Append(saved, questions)
    /\ pc' = "saved"
    /\ UNCHANGED <<file0, loaded, twin>>
    /\ UNCHANGED parseVars
    /\ UNCHANGED mapVars
    /\ UNCHANGED concVars
    /\ UNCHANGED clusterVars

InitIngest ==
    /\ text \in IngestTexts
    /\ default_year \in DefaultYears
    /\ paper_name \in PaperNames
    /\ pattern \in IngestPatterns
    /\ file \in IngestFiles
    /\ file0 = file
    /\ pc = "analyze"
    /\ sections = <<>>
    /\ seg_calls = 0
    /\ sec_idx = 0
    /\ calls = <<>>
    /\ all_questions = <<>>
    /\ result = <<>>
    /\ questions = <<>>
    /\ saved = <<>>
    /\ loaded = [kind |-> "unset"]
    /\ twin = [exists |-> FALSE]
    /\ ConcIdle
    /\ ClusterIdle

NextIngest ==
    \/ AnalyzeNoText
    \/ AnalyzeParse
    \/ BulkCall
    \/ SectionSkip
    \/ SectionCall
    \/ FallbackReturn
    \/ AnalyzeMap
    \/ IngestReturn
    \/ IngestSave

SpecIngest == InitIngest /\ [][NextIngest]_vars

\* the analysis of this ingestion came back empty
AnalysisEmpty == pc \in {"analyzed", "returned", "saved"} /\ questions = <<>>

\* C28: an ingestion whose analysis yields no question never calls save, so
\* the bank file is neither created nor rewritten; save is only ever called
\* with a non-empty list whose questions all carry a module.
C28_EmptyIngestionLeavesBank ==
    /\ AnalysisEmpty => pc # "saved" /\ saved = <<>> /\ file = file0
    /\ saved = <<>> => file = file0
    /\ \A i \in 1..Len(saved) :
          /\ saved[i] # <<>>
          /\ \A k \in 1..Len(saved[i]) : saved[i][k].module # None

\* both tiers failed on a paper with year headers, the command has returned
\* and the subject still has no bank file
C28_Witness ==
    /\ pc = "returned"
    /\ Len(calls) >= 2
    /\ \A i \in 1..Len(calls) : calls[i].outcome # "ok"
    /\ ~file0.exists
    /\ ~file.exists

====
